---- MODULE Spec2Model ----
(***************************************************************************)
(* Kinetic eGFR (Chen) calculator: src/app.py and src/streamlit_app.py.    *)
(*                                                                         *)
(* Numbers.  The Python code computes in binary floating point; the model  *)
(* computes in exact rational arithmetic.  A number is a pair <<n, d>>     *)
(* with d > 0 in lowest terms, Python's None is the empty tuple, and a     *)
(* datetime is a one-element tuple <<seconds>>.                            *)
(***************************************************************************)
EXTENDS Integers, Sequences, FiniteSets, TLC

----------------------------------------------------------------------------
(* Bounds of the model: the grids the inputs are drawn from.               *)

\* creatinine readings SCr2 are k/2 mg/dL for k in -1..MaxScr2
MaxScr2 == 5
\* timestamps of the second reading are k*3 hours for k in 0..MaxT2
MaxT2 == 4
\* dosing_band arguments are k/2 mL/min for k in -2..MaxGfr2
MaxGfr2 == 130
\* weights for TBW are 10*k kg for k in -1..MaxWt
MaxWt == 8
\* cumulative fluid balances are -30+10*k L for k in 0..MaxFb
MaxFb == 6

----------------------------------------------------------------------------
(* Rational arithmetic.                                                    *)

None == <<>>

Abs(n) == IF n < 0 THEN -n ELSE n

RECURSIVE GCD(_, _)
GCD(a, b) == IF b = 0 THEN a ELSE GCD(b, a % b)

Rat(n, d) ==
    LET g == GCD(Abs(n), Abs(d))
        s == IF d < 0 THEN -1 ELSE 1
    IN  <<(s * n) \div g, (s * d) \div g>>

Num(k) == <<k, 1>>
Add(x, y) == Rat(x[1] * y[2] + y[1] * x[2], x[2] * y[2])
Sub(x, y) == Rat(x[1] * y[2] - y[1] * x[2], x[2] * y[2])
Mul(x, y) == Rat(x[1] * y[1], x[2] * y[2])
Div(x, y) == Rat(x[1] * y[2], x[2] * y[1])
Lt(x, y) == x[1] * y[2] < y[1] * x[2]
Le(x, y) == x[1] * y[2] <= y[1] * x[2]
Ge(x, y) == Le(y, x)
Gt(x, y) == Lt(y, x)
RMax(x, y) == IF Lt(x, y) THEN y ELSE x
RMin(x, y) == IF Lt(y, x) THEN y ELSE x
Zero == Num(0)
\* Python truthiness of a number-or-None: None and 0 are falsy
Truthy(x) == x # None /\ x # Zero

----------------------------------------------------------------------------
(* chen_ke_gfr.  The result is a record: ke, d_scr, dt_h, err (a string,   *)
(* "None" when the call succeeds) and exc, the exception the call raises   *)
(* ("None" when it returns).                                               *)

Ret(ke, d_scr, dt_h, err) ==
    [ke |-> ke, d_scr |-> d_scr, dt_h |-> dt_h, err |-> err, exc |-> "None"]
Raise(e) ==
    [ke |-> None, d_scr |-> None, dt_h |-> None, err |-> "None", exc |-> e]
Pending == [ke |-> None, d_scr |-> None, dt_h |-> None, err |-> "None", exc |-> "pending"]

\* mutant: the operands of the subtraction swapped
HoursBetween_Swapped(t1v, t2v) == Rat(t1v[1] - t2v[1], 3600)

\* (t2 - t1).total_seconds() / 3600.0
HoursBetween(t1v, t2v) == Rat(t2v[1] - t1v[1], 3600)

\* mutant: the rise is added instead of subtracted
Term_Plus(d_scr, dt_h, mdd) == Add(Num(1), Div(Mul(Num(24), d_scr), Mul(dt_h, mdd)))

\* term = 1.0 - (24.0 * d_scr) / (dt_h * max_dscr_day)
Term(d_scr, dt_h, mdd) == Sub(Num(1), Div(Mul(Num(24), d_scr), Mul(dt_h, mdd)))

\* ke = (scr_ss * crcl_ss / mean_scr) * term
KeFormula(ss, cl, mean_scr, term) == Mul(Div(Mul(ss, cl), mean_scr), term)

\* the tail shared by both variants, from "mean_scr = ..." on; comparing None
\* with 0 raises TypeError in Python 3
KeTail(ss, cl, s1, s2, dt_h, mdd, badparam) ==
    LET mean_scr == Div(Add(s1, s2), Num(2))
        d_scr == Sub(s2, s1)
    IN  IF Le(mean_scr, Zero) THEN Ret(None, None, None, badparam)
        ELSE IF mdd = None THEN Raise("TypeError")
        ELSE IF Le(mdd, Zero) THEN Ret(None, None, None, badparam)
        ELSE Ret(KeFormula(ss, cl, mean_scr, Term(d_scr, dt_h, mdd)), d_scr, dt_h, "None")

\* src/app.py chen_ke_gfr
ChenKeGfrApp(ss, cl, s1, t1v, s2, t2v, mdd) ==
    IF None \in {ss, cl, s1, t1v, s2, t2v} THEN Ret(None, None, None, "missing")
    ELSE IF Le(ss, Zero) \/ Le(cl, Zero) \/ Le(s1, Zero) \/ Le(s2, Zero)
         THEN Ret(None, None, None, "nonpositive")
    ELSE IF Le(HoursBetween(t1v, t2v), Zero) THEN Ret(None, None, None, "nonpositive_dt")
    ELSE KeTail(ss, cl, s1, s2, HoursBetween(t1v, t2v), mdd, "bad_params")

\* mutant: the interval is validated before the scalars
ChenKeGfrSt_DtFirst(ss, cl, s1, t1v, s2, t2v, mdd) ==
    IF None \in {ss, cl, s1, t1v, s2, t2v} THEN Ret(None, None, None, "bad_input")
    ELSE IF Le(HoursBetween(t1v, t2v), Zero) THEN Ret(None, None, None, "bad_dt")
    ELSE IF Le(RMin(RMin(ss, cl), RMin(s1, s2)), Zero)
         THEN Ret(None, None, None, "bad_input")
    ELSE KeTail(ss, cl, s1, s2, HoursBetween(t1v, t2v), mdd, "bad_param")

\* src/streamlit_app.py chen_ke_gfr
ChenKeGfrSt(ss, cl, s1, t1v, s2, t2v, mdd) ==
    IF None \in {ss, cl, s1, t1v, s2, t2v} THEN Ret(None, None, None, "bad_input")
    ELSE IF Le(RMin(RMin(ss, cl), RMin(s1, s2)), Zero)
         THEN Ret(None, None, None, "bad_input")
    ELSE IF Le(HoursBetween(t1v, t2v), Zero) THEN Ret(None, None, None, "bad_dt")
    ELSE KeTail(ss, cl, s1, s2, HoursBetween(t1v, t2v), mdd, "bad_param")

----------------------------------------------------------------------------
(* dosing_band and the interpreter.                                        *)

\* src/app.py dosing_band
DosingBandApp(g) ==
    IF g = None THEN "unknown"
    ELSE IF Ge(g, Num(60)) THEN ">=60 mL/min - standard dosing in most monographs"
    ELSE IF Ge(g, Num(30)) THEN "30-59 mL/min - moderate reduction"
    ELSE IF Ge(g, Num(15)) THEN "15-29 mL/min - severe reduction"
    ELSE IF Ge(g, Zero) THEN "<15 mL/min - kidney failure range"
    ELSE "near-zero - treat as anuric"

\* mutant: the boundary 30 falls into the band below it
DosingBandSt_Strict30(g) ==
    IF g = None THEN "unknown"
    ELSE IF Ge(g, Num(60)) THEN ">=60 mL/min - standard dosing"
    ELSE IF Gt(g, Num(30)) THEN "30-59 mL/min - moderate reduction"
    ELSE IF Ge(g, Num(15)) THEN "15-29 mL/min - severe reduction"
    ELSE IF Ge(g, Zero) THEN "<15 mL/min - kidney failure range"
    ELSE "near-zero - treat as anuric"

\* src/streamlit_app.py dosing_band
DosingBandSt(g) ==
    IF g = None THEN "unknown"
    ELSE IF Ge(g, Num(60)) THEN ">=60 mL/min - standard dosing"
    ELSE IF Ge(g, Num(30)) THEN "30-59 mL/min - moderate reduction"
    ELSE IF Ge(g, Num(15)) THEN "15-29 mL/min - severe reduction"
    ELSE IF Ge(g, Zero) THEN "<15 mL/min - kidney failure range"
    ELSE "near-zero - treat as anuric"

\* The interpreter's output: the sentences it joins, by kind and in order,
\* with the numbers the value sentence and the reduction sentence print.
NoOut == [obs |-> <<>>, ke_display |-> None, band |-> "None", drop |-> None]
CannotCompute == [obs |-> <<"cannot compute">>, ke_display |-> None, band |-> "None", drop |-> None]

\* the sentences of interpretation / interp from "if d_scr > 0" on
Sentences(ke, cl, d_scr, dt_h, ke_display) ==
    <<IF Gt(d_scr, Zero) THEN "rising" ELSE IF Lt(d_scr, Zero) THEN "falling" ELSE "unchanged">>
    \o <<"value and band">>
    \o (IF Truthy(cl) /\ Gt(cl, Zero) THEN <<"functional reduction">> ELSE <<>>)
    \o (IF Lt(dt_h, Num(6)) THEN <<"interval <6 h">> ELSE <<>>)
    \o (IF Lt(ke, Zero) THEN <<"negative: treat as ~0">> ELSE <<>>)
    \o (IF Lt(ke_display, Num(30)) THEN <<"accumulation risk">> ELSE <<>>)
    \o <<"closing caveat">>

\* mutant: the presentation clamp is missing
KeDisplay_NoClamp(ke) == ke

\* ke_display = max(0.0, ke)
KeDisplay(ke) == RMax(Zero, ke)

\* drop = max(0.0, 1.0 - ke_display / crcl_ss) * 100.0
Drop(ke_display, cl) ==
    IF Truthy(cl) /\ Gt(cl, Zero)
    THEN Mul(RMax(Zero, Sub(Num(1), Div(ke_display, cl))), Num(100))
    ELSE None

\* src/app.py interpretation
Interpretation(ke, cl, d_scr, dt_h) ==
    IF ke = None THEN CannotCompute
    ELSE [obs |-> Sentences(ke, cl, d_scr, dt_h, KeDisplay(ke)),
          ke_display |-> KeDisplay(ke),
          band |-> DosingBandApp(KeDisplay(ke)),
          drop |-> Drop(KeDisplay(ke), cl)]

\* src/streamlit_app.py interp
Interp(ke, cl, d_scr, dt_h, tag) ==
    IF ke = None THEN CannotCompute
    ELSE [obs |-> (IF tag # "" THEN <<tag>> ELSE <<>>)
                  \o Sentences(ke, cl, d_scr, dt_h, KeDisplay(ke)),
          ke_display |-> KeDisplay(ke),
          band |-> DosingBandSt(KeDisplay(ke)),
          drop |-> Drop(KeDisplay(ke), cl)]

----------------------------------------------------------------------------
(* The max-rise resolver, total body water and the fluid-balance corrector. *)

\* mutant: only the upper bound is applied
Clamp_UpperOnly(x) == RMin(x, Num(5))

\* min(max(x, 0.5), 5.0), applied when x < 0.5 or x > 5.0
Clamp(x) ==
    IF Lt(x, Rat(1, 2)) \/ Gt(x, Num(5)) THEN RMin(RMax(x, Rat(1, 2)), Num(5)) ELSE x

\* (scr_ss * crcl_ss / tbw) * 1440.0 / 1000.0
DerivedMaxRise(ss, cl, tbw) == Div(Mul(Div(Mul(ss, cl), tbw), Num(1440)), Num(1000))

\* src/app.py lines 121-133; sex is "unset" when the Cockcroft-Gault inputs
\* were not drawn ('sex' in locals() is false)
MaxDscrDayApp(max_choice, sex, cl, ss, wt) ==
    IF max_choice = "Fixed 1.5 mg/dL/day" THEN Rat(3, 2)
    ELSE IF ~Truthy(cl) \/ ~Truthy(ss) \/ ~Truthy(wt) THEN Rat(3, 2)
    ELSE Clamp(DerivedMaxRise(ss, cl,
                 Mul(IF sex # "unset" /\ sex = "Female" THEN Rat(1, 2) ELSE Rat(6, 10), wt)))

\* src/streamlit_app.py lines 100-118: sex_for_tbw_default
SexForTbwDefault(sex) == IF sex = "unset" THEN "Male" ELSE sex

\* src/streamlit_app.py lines 143-152
MaxDscrDaySt(max_choice, sex, cl, ss, wt) ==
    IF max_choice = "Fixed 1.5 mg/dL/day" THEN Rat(3, 2)
    ELSE IF ~(Truthy(cl) /\ Truthy(ss) /\ Truthy(wt)) THEN Rat(3, 2)
    ELSE Clamp(DerivedMaxRise(ss, cl,
                 Mul(IF SexForTbwDefault(sex) = "Female" THEN Rat(1, 2) ELSE Rat(6, 10), wt)))

\* src/streamlit_app.py tbw_liters
TbwLiters(sex_for_tbw, weight_for_tbw) ==
    IF weight_for_tbw = None \/ Le(weight_for_tbw, Zero) THEN None
    ELSE Mul(IF sex_for_tbw = "Female" THEN Rat(1, 2) ELSE Rat(6, 10), weight_for_tbw)

\* mutant: the balance is subtracted
FbCorrect_Minus(scr, fb_l, tbw_l) ==
    IF scr = None \/ tbw_l = None THEN scr
    ELSE IF Le(tbw_l, Zero) \/ fb_l = None THEN scr
    ELSE Mul(scr, Sub(Num(1), Div(fb_l, tbw_l)))

\* src/streamlit_app.py fb_correct
FbCorrect(scr, fb_l, tbw_l) ==
    IF scr = None \/ tbw_l = None THEN scr
    ELSE IF Le(tbw_l, Zero) \/ fb_l = None THEN scr
    ELSE Mul(scr, Add(Num(1), Div(fb_l, tbw_l)))

----------------------------------------------------------------------------
(* The "Compute KeGFR" handler of src/streamlit_app.py, lines 173-212.     *)

NoReport ==
    [error |-> "pending", ke_raw |-> None, ke_disp |-> None, dt_h |-> None,
     d_scr_raw |-> None, fb_applied |-> FALSE, ke_fb |-> None, ke_fb_disp |-> None,
     d_scr_fb |-> None, interp_raw |-> NoOut, interp_fb |-> NoOut]

ErrorReport(msg) == [NoReport EXCEPT !.error = msg]

\* lines 181-188: the fluid-balance-corrected pair, if requested
FbResult(a, use_fb, fb1, fb2, tbw_fb) ==
    IF use_fb /\ Truthy(tbw_fb) /\ Gt(tbw_fb, Zero)
    THEN ChenKeGfrSt(a.scr_ss, a.crcl_ss, FbCorrect(a.scr1, fb1, tbw_fb), a.t1,
                     FbCorrect(a.scr2, fb2, tbw_fb), a.t2, a.max_dscr_day)
    ELSE Ret(None, None, None, "None")

\* lines 194-212: what is shown once the raw computation has succeeded
ShowResults(a, use_fb, raw, fb) ==
    LET applied == use_fb /\ fb.ke # None /\ fb.err = "None"
    IN  [error |-> "none",
         ke_raw |-> raw.ke,
         ke_disp |-> IF raw.ke # None THEN RMax(Zero, raw.ke) ELSE None,
         dt_h |-> raw.dt_h,
         d_scr_raw |-> raw.d_scr,
         fb_applied |-> applied,
         ke_fb |-> IF applied THEN fb.ke ELSE None,
         ke_fb_disp |-> IF applied THEN RMax(Zero, fb.ke) ELSE None,
         d_scr_fb |-> IF applied THEN fb.d_scr ELSE None,
         interp_raw |-> Interp(raw.ke, a.crcl_ss, raw.d_scr, raw.dt_h, "uncorrected"),
         interp_fb |-> IF applied
                       THEN Interp(fb.ke, a.crcl_ss, fb.d_scr, raw.dt_h, "FB-corrected")
                       ELSE NoOut]

ComputeKeGFR(a, use_fb, fb1, fb2, tbw_fb) ==
    IF ~(Truthy(a.crcl_ss) /\ Gt(a.crcl_ss, Zero))
    THEN ErrorReport("Provide a valid baseline CrCl_ss (>0).")
    ELSE LET raw == ChenKeGfrSt(a.scr_ss, a.crcl_ss, a.scr1, a.t1, a.scr2, a.t2, a.max_dscr_day)
             fb == FbResult(a, use_fb, fb1, fb2, tbw_fb)
         IN  IF raw.exc # "None" THEN ErrorReport(raw.exc)
             ELSE IF fb.exc # "None" THEN ErrorReport(fb.exc)
             ELSE IF raw.err = "bad_dt" THEN ErrorReport("Time of SCr2 must be after SCr1.")
             ELSE IF raw.err # "None" THEN ErrorReport("Unable to compute. Check values/units.")
             ELSE ShowResults(a, use_fb, raw, fb)

----------------------------------------------------------------------------
(* State.                                                                  *)

VARIABLES
    args,      \* the arguments of chen_ke_gfr: scr_ss, crcl_ss, scr1, t1, scr2, t2, max_dscr_day
    retApp,    \* what app.py's chen_ke_gfr returned for args
    retSt,     \* what streamlit_app.py's chen_ke_gfr returned for args
    outApp,    \* what interpretation returned for retApp
    outSt,     \* what interp returned for retSt
    prev,      \* the previous successful computation, before SCr2 was edited
    gfr,       \* the argument of dosing_band
    bandApp,   \* what app.py's dosing_band returned for gfr
    bandSt,    \* what streamlit_app.py's dosing_band returned for gfr
    ui,        \* the resolver's inputs: max_choice, sex, crcl_ss, scr_ss, wt_for_tbw
    mddApp,    \* max_dscr_day as app.py resolves it (None: not yet)
    mddSt,     \* max_dscr_day as streamlit_app.py resolves it (None: not yet)
    fbw,       \* the fluid-balance widgets: use_fb, fb1, fb2, tbw_fb
    report,    \* what the Compute KeGFR handler of streamlit_app.py shows
    fbc,       \* a call of fb_correct: scr, fb_l, tbw_l, done, result
    phase      \* which component runs

kvars == <<args, retApp, retSt, outApp, outSt, prev>>
bandvars == <<gfr, bandApp, bandSt>>
resvars == <<ui, mddApp, mddSt>>
fbvars == <<fbw, report>>
vars == <<args, retApp, retSt, outApp, outSt, prev, gfr, bandApp, bandSt,
          ui, mddApp, mddSt, fbw, report, fbc, phase>>

NoPrev == [scr2 |-> None, keApp |-> None, keSt |-> None]
NoArgs ==
    [scr_ss |-> None, crcl_ss |-> None, scr1 |-> None, t1 |-> None, scr2 |-> None,
     t2 |-> None, max_dscr_day |-> None]
NoUi == [max_choice |-> "unset", sex |-> "unset", crcl_ss |-> None, scr_ss |-> None,
         wt_for_tbw |-> None]
NoFbw == [use_fb |-> FALSE, fb1 |-> Zero, fb2 |-> Zero, tbw_fb |-> None]
NoFbc == [scr |-> None, fb_l |-> None, tbw_l |-> None, done |-> FALSE, result |-> None]

IdleK ==
    /\ args = NoArgs /\ retApp = Pending /\ retSt = Pending
    /\ outApp = NoOut /\ outSt = NoOut /\ prev = NoPrev
IdleBand == gfr = None /\ bandApp = "pending" /\ bandSt = "pending"
IdleRes == ui = NoUi /\ mddApp = None /\ mddSt = None
IdleFb == fbw = NoFbw /\ report = NoReport
IdleFbc == fbc = NoFbc

Hours(k) == <<k * 3600>>

----------------------------------------------------------------------------
(* Spec: the kinetic estimator and the interpreter, both files, on every   *)
(* combination of absent, non-positive and positive arguments.             *)

ScrSsVals == {None, Num(-1), Num(0), Num(1), Num(2)}
CrClVals == {None, Num(-90), Num(0), Num(90)}
Scr1Vals == {None, Num(-1), Num(0), Num(1), Num(2)}
Scr2Vals == {None} \cup {Rat(k, 2) : k \in -1..MaxScr2}
T1Vals == {None, Hours(0), Hours(6)}
T2Vals == {None} \cup {Hours(3 * k) : k \in 0..MaxT2}
MaxRiseVals == {None, Num(-1), Num(0), Rat(1, 2), Rat(3, 2), Num(5)}

ArgSpace ==
    [scr_ss : ScrSsVals, crcl_ss : CrClVals, scr1 : Scr1Vals, t1 : T1Vals,
     scr2 : Scr2Vals, t2 : T2Vals, max_dscr_day : MaxRiseVals]

Init ==
    /\ phase = "estimator"
    /\ args \in ArgSpace
    /\ retApp = Pending
    /\ retSt = Pending
    /\ outApp = NoOut
    /\ outSt = NoOut
    /\ prev = NoPrev
    /\ IdleBand /\ IdleRes /\ IdleFb /\ IdleFbc

\* app.py line 139: the call of chen_ke_gfr
CallChenApp ==
    /\ retApp = Pending
    /\ retApp' = ChenKeGfrApp(args.scr_ss, args.crcl_ss, args.scr1, args.t1, args.scr2, args.t2,
                              args.max_dscr_day)
    /\ UNCHANGED <<args, retSt, outApp, outSt, prev, bandvars, resvars, fbvars, fbc, phase>>

\* streamlit_app.py line 178: the call of chen_ke_gfr
CallChenSt ==
    /\ retSt = Pending
    /\ retSt' = ChenKeGfrSt(args.scr_ss, args.crcl_ss, args.scr1, args.t1, args.scr2, args.t2,
                            args.max_dscr_day)
    /\ UNCHANGED <<args, retApp, outApp, outSt, prev, bandvars, resvars, fbvars, fbc, phase>>

Returned(r) == r.exc = "None"
Succeeded(r) == r.exc = "None" /\ r.err = "None"

\* app.py line 151: interpretation of a result
CallInterpretation ==
    /\ Returned(retApp)
    /\ outApp = NoOut
    /\ outApp' = Interpretation(retApp.ke, args.crcl_ss, retApp.d_scr, retApp.dt_h)
    /\ UNCHANGED <<args, retApp, retSt, outSt, prev, bandvars, resvars, fbvars, fbc, phase>>

\* streamlit_app.py line 210: interp of a result
CallInterp ==
    /\ Returned(retSt)
    /\ outSt = NoOut
    /\ outSt' = Interp(retSt.ke, args.crcl_ss, retSt.d_scr, retSt.dt_h, "uncorrected")
    /\ UNCHANGED <<args, retApp, retSt, outApp, prev, bandvars, resvars, fbvars, fbc, phase>>

\* the user edits SCr2 after a successful computation and computes again
EditScr2 ==
    /\ Succeeded(retApp) /\ Succeeded(retSt)
    /\ \E s \in Scr2Vals \ {None, args.scr2} :
          /\ Gt(s, Zero)
          /\ args' = [args EXCEPT !.scr2 = s]
    /\ prev' = [scr2 |-> args.scr2, keApp |-> retApp.ke, keSt |-> retSt.ke]
    /\ retApp' = Pending
    /\ retSt' = Pending
    /\ outApp' = NoOut
    /\ outSt' = NoOut
    /\ UNCHANGED <<bandvars, resvars, fbvars, fbc, phase>>

Next ==
    \/ CallChenApp
    \/ CallChenSt
    \/ CallInterpretation
    \/ CallInterp
    \/ EditScr2

Spec == Init /\ [][Next]_vars

----------------------------------------------------------------------------
(* SpecBand: dosing_band of both files on a grid of eGFR values.           *)

GfrVals == {None} \cup {Rat(k, 2) : k \in -2..MaxGfr2}

InitBand ==
    /\ phase = "band"
    /\ gfr \in GfrVals
    /\ bandApp = "pending"
    /\ bandSt = "pending"
    /\ IdleK /\ IdleRes /\ IdleFb /\ IdleFbc

CallDosingBandApp ==
    /\ bandApp = "pending"
    /\ bandApp' = DosingBandApp(gfr)
    /\ UNCHANGED <<gfr, bandSt, kvars, resvars, fbvars, fbc, phase>>

CallDosingBandSt ==
    /\ bandSt = "pending"
    /\ bandSt' = DosingBandSt(gfr)
    /\ UNCHANGED <<gfr, bandApp, kvars, resvars, fbvars, fbc, phase>>

NextBand == CallDosingBandApp \/ CallDosingBandSt

SpecBand == InitBand /\ [][NextBand]_vars

----------------------------------------------------------------------------
(* SpecRes: the max-rise resolver of both files.                           *)

ResCrClVals == {None, Num(-90), Num(0), Num(25), Num(90)}
ResScrVals == {None, Num(-1), Num(0), Rat(1, 2), Num(1), Num(5)}
WtVals == {None} \cup {Num(10 * k) : k \in -1..MaxWt}

UiSpace ==
    [max_choice : {"Fixed 1.5 mg/dL/day", "Compute from weight (TBW)"},
     sex : {"unset", "Male", "Female"},
     crcl_ss : ResCrClVals, scr_ss : ResScrVals, wt_for_tbw : WtVals]

InitRes ==
    /\ phase = "resolver"
    /\ ui \in UiSpace
    /\ mddApp = None
    /\ mddSt = None
    /\ IdleK /\ IdleBand /\ IdleFb /\ IdleFbc

ResolveApp ==
    /\ mddApp = None
    /\ mddApp' = MaxDscrDayApp(ui.max_choice, ui.sex, ui.crcl_ss, ui.scr_ss, ui.wt_for_tbw)
    /\ UNCHANGED <<ui, mddSt, kvars, bandvars, fbvars, fbc, phase>>

ResolveSt ==
    /\ mddSt = None
    /\ mddSt' = MaxDscrDaySt(ui.max_choice, ui.sex, ui.crcl_ss, ui.scr_ss, ui.wt_for_tbw)
    /\ UNCHANGED <<ui, mddApp, kvars, bandvars, fbvars, fbc, phase>>

NextRes == ResolveApp \/ ResolveSt

SpecRes == InitRes /\ [][NextRes]_vars

----------------------------------------------------------------------------
(* SpecFbc: fb_correct on every combination of absent and present inputs.  *)

FbVals == {Num(10 * k - 30) : k \in 0..MaxFb}
FbcScrVals == {None, Num(1), Rat(13, 10)}
FbcTbwVals == {None, Num(-30), Num(0), Num(25), Num(30), Num(42)}

InitFbc ==
    /\ phase = "fb_correct"
    /\ fbc \in [scr : FbcScrVals, fb_l : FbVals \cup {None}, tbw_l : FbcTbwVals,
                done : {FALSE}, result : {None}]
    /\ IdleK /\ IdleBand /\ IdleRes /\ IdleFb

CallFbCorrect ==
    /\ ~fbc.done
    /\ fbc' = [fbc EXCEPT !.done = TRUE, !.result = FbCorrect(fbc.scr, fbc.fb_l, fbc.tbw_l)]
    /\ UNCHANGED <<kvars, bandvars, resvars, fbvars, phase>>

NextFbc == CallFbCorrect

SpecFbc == InitFbc /\ [][NextFbc]_vars

----------------------------------------------------------------------------
(* SpecFb: the Compute KeGFR handler of streamlit_app.py on inputs the     *)
(* widgets allow (lines 96-171): creatinines in [0.01, 50], fluid balances *)
(* in [-30, 30] L, weights in [1, 400] kg.                                 *)

\* lines 160-162: number_input(..., -30.0, 30.0, ...)
WidgetFbVals == {f \in FbVals : Ge(f, Num(-30)) /\ Le(f, Num(30))}

\* lines 155-171: the fluid-balance widgets
FbwSpace ==
    {[use_fb |-> FALSE, fb1 |-> Zero, fb2 |-> Zero, tbw_fb |-> None]}
    \cup {[use_fb |-> TRUE, fb1 |-> f1, fb2 |-> f2, tbw_fb |-> TbwLiters(sx, Num(w))] :
            f1 \in WidgetFbVals, f2 \in WidgetFbVals, sx \in {"Male", "Female"}, w \in {50, 60, 70}}

FbArgSpace ==
    [scr_ss : {Num(1)}, crcl_ss : {None, Num(90)}, scr1 : {Num(1), Num(2)},
     t1 : {Hours(0), Hours(6)},
     scr2 : {Rat(k, 2) : k \in 1..MaxScr2}, t2 : {Hours(3 * k) : k \in 0..MaxT2},
     max_dscr_day : {Rat(3, 2), Num(5)}]

InitFb ==
    /\ phase = "handler"
    /\ args \in FbArgSpace
    /\ fbw \in FbwSpace
    /\ report = NoReport
    /\ retApp = Pending /\ retSt = Pending
    /\ outApp = NoOut /\ outSt = NoOut /\ prev = NoPrev
    /\ IdleBand /\ IdleRes /\ IdleFbc

PressCompute ==
    /\ report = NoReport
    /\ report' = ComputeKeGFR(args, fbw.use_fb, fbw.fb1, fbw.fb2, fbw.tbw_fb)
    /\ UNCHANGED <<kvars, fbw, bandvars, resvars, fbc, phase>>

NextFb == PressCompute

SpecFb == InitFb /\ [][NextFb]_vars

----------------------------------------------------------------------------
(* Claims about the kinetic estimator and the interpreter (Spec).          *)

Present(x) == x # None
Positive(x) == x # None /\ Gt(x, Zero)

\* every argument present, the five scalars strictly positive
AllValid(a) ==
    /\ Positive(a.scr_ss) /\ Positive(a.crcl_ss) /\ Positive(a.scr1) /\ Positive(a.scr2)
    /\ Positive(a.max_dscr_day)
    /\ Present(a.t1) /\ Present(a.t2)

IntervalRule(r, dtKind) ==
    r.exc # "pending" =>
        /\ args.t2[1] <= args.t1[1] => (r.exc = "None" /\ r.ke = None /\ r.err = dtKind)
        /\ args.t2[1] > args.t1[1] => r.err # dtKind

\* C1: with every other argument valid, chen_ke_gfr returns no eGFR and the
\* non-positive-interval error ("nonpositive_dt" in app.py, "bad_dt" in
\* streamlit_app.py) when time2 <= time1, and never that error when time2 > time1.
C1_NonPositiveInterval ==
    AllValid(args) =>
        IntervalRule(retApp, "nonpositive_dt") /\ IntervalRule(retSt, "bad_dt")

\* C1 witness: both files have answered a call with equal timestamps and
\* otherwise valid arguments with the interval error.
C1_Witness ==
    /\ AllValid(args)
    /\ args.t2 = args.t1
    /\ retApp.err = "nonpositive_dt"
    /\ retSt.err = "bad_dt"

TypedOutcome(r, kinds) ==
    \/ r.exc = "pending"
    \/ /\ r.exc = "None"
       /\ \/ r.ke # None /\ r.err = "None"
          \/ r.ke = None /\ r.err \in kinds

\* C2: chen_ke_gfr never aborts with a thrown fault: whatever the seven
\* arguments are (absent, non-positive or positive), it returns a numeric eGFR
\* with no error, or no eGFR with one of the typed error kinds.
C2_NeverFaults ==
    /\ TypedOutcome(retApp, {"missing", "nonpositive", "nonpositive_dt", "bad_params"})
    /\ TypedOutcome(retSt, {"bad_input", "bad_dt", "bad_param"})

Monotone(r, prevKe) ==
    (Succeeded(r) /\ prev.scr2 # None) =>
        /\ Gt(args.scr2, prev.scr2) => Lt(r.ke, prevKe)
        /\ Lt(args.scr2, prev.scr2) => Gt(r.ke, prevKe)

\* C5: of two successful calls that differ only in creatinine2, the one with
\* the larger creatinine2 returns the strictly smaller eGFR, also when the
\* term 1 - 24*delta/(intervalHours*maxRisePerDay) is negative.
C5_Monotone == Monotone(retApp, prev.keApp) /\ Monotone(retSt, prev.keSt)

\* C5 witness: SCr2 was raised after a computation whose eGFR was already
\* negative (negative term), and both files have computed again.
C5_Witness ==
    /\ prev.scr2 # None
    /\ Succeeded(retApp) /\ Succeeded(retSt)
    /\ Gt(args.scr2, prev.scr2)
    /\ Lt(prev.keApp, Zero) /\ Lt(prev.keSt, Zero)
    /\ Lt(retApp.ke, prev.keApp) /\ Lt(retSt.ke, prev.keSt)

Contains(seq, x) == \E i \in 1..Len(seq) : seq[i] = x

\* the eGFR in closed form: 2*ss*cl*(dt*m - 24*(s2 - s1)) / ((s1 + s2)*dt*m)
ClosedFormKe(a) ==
    LET dtm == Mul(Rat(a.t2[1] - a.t1[1], 3600), a.max_dscr_day)
    IN  Div(Mul(Num(2), Mul(Mul(a.scr_ss, a.crcl_ss),
                            Sub(dtm, Mul(Num(24), Sub(a.scr2, a.scr1))))),
            Mul(Add(a.scr1, a.scr2), dtm))

Displayed(r, out, negBand) ==
    (Succeeded(r) /\ out # NoOut) =>
        /\ r.ke = ClosedFormKe(args)
        /\ Ge(out.ke_display, Zero)
        /\ Ge(r.ke, Zero) => out.ke_display = r.ke
        /\ Lt(r.ke, Zero) =>
              /\ out.ke_display = Zero
              /\ out.band = negBand
              /\ Contains(out.obs, "negative: treat as ~0")
              /\ Contains(out.obs, "accumulation risk")

\* C6: for a successful result the displayed eGFR is max(0, eGFR), never
\* negative; when the raw eGFR is negative the displayed value is 0, the band
\* is the kidney-failure range (<15) and the output holds the negative-value
\* caveat and the accumulation-risk caveat, while chen_ke_gfr itself returns
\* the negative value of the formula, unclamped.
C6_DisplayClamp ==
    /\ Displayed(retApp, outApp, "<15 mL/min - kidney failure range")
    /\ Displayed(retSt, outSt, "<15 mL/min - kidney failure range")

\* C6 witness: both files have interpreted a negative eGFR.
C6_Witness ==
    /\ Succeeded(retApp) /\ Succeeded(retSt)
    /\ Lt(retApp.ke, Zero) /\ Lt(retSt.ke, Zero)
    /\ outApp.ke_display = Zero /\ outSt.ke_display = Zero

ErrorClass(r) ==
    IF r.exc # "None" THEN r.exc
    ELSE IF r.err \in {"missing", "nonpositive", "bad_input"} THEN "missingOrNonpositiveInput"
    ELSE IF r.err \in {"nonpositive_dt", "bad_dt"} THEN "nonPositiveInterval"
    ELSE IF r.err \in {"bad_params", "bad_param"} THEN "badParameters"
    ELSE "none"

\* one of the four scalars absent or non-positive, or a timestamp absent
BadScalar(a) ==
    \/ ~Positive(a.scr_ss) \/ ~Positive(a.crcl_ss) \/ ~Positive(a.scr1) \/ ~Positive(a.scr2)
    \/ ~Present(a.t1) \/ ~Present(a.t2)

ValidationOrder(r) ==
    r.exc # "pending" =>
        /\ BadScalar(args) => ErrorClass(r) = "missingOrNonpositiveInput"
        /\ (~BadScalar(args) /\ args.t2[1] <= args.t1[1]) => ErrorClass(r) = "nonPositiveInterval"
        /\ ErrorClass(r) = "badParameters" =>
              (~BadScalar(args) /\ args.t2[1] > args.t1[1] /\ ~Positive(args.max_dscr_day))

\* C10: validation reports the first failure in a fixed order (missing or
\* non-positive input, then non-positive interval, then bad parameters), and
\* the two files agree on the error class and on the eGFR, delta and interval
\* of every successful call.
C10_ValidationOrder ==
    /\ ValidationOrder(retApp)
    /\ ValidationOrder(retSt)
    /\ (retApp.exc # "pending" /\ retSt.exc # "pending") =>
          /\ ErrorClass(retApp) = ErrorClass(retSt)
          /\ Succeeded(retApp) =>
                (retSt.ke = retApp.ke /\ retSt.d_scr = retApp.d_scr /\ retSt.dt_h = retApp.dt_h)

\* C10 witness: a non-positive scalar together with time2 <= time1 and a
\* non-positive max rise, reported by both files as a missing/non-positive input.
C10_Witness ==
    /\ Present(args.scr1) /\ ~Positive(args.scr1)
    /\ Present(args.t1) /\ Present(args.t2) /\ args.t2[1] <= args.t1[1]
    /\ Present(args.max_dscr_day) /\ ~Positive(args.max_dscr_day)
    /\ retApp.err = "nonpositive"
    /\ retSt.err = "bad_input"

----------------------------------------------------------------------------
(* Claims about the max-rise resolver (SpecRes).                           *)

Derived(u) == u.max_choice = "Compute from weight (TBW)"

\* the inputs for which lines 128-133 (app.py) / 149-152 (streamlit_app.py) run
FormulaEvaluated(u) ==
    Derived(u) /\ Truthy(u.crcl_ss) /\ Truthy(u.scr_ss) /\ Truthy(u.wt_for_tbw)

\* steadyStateCreatinine x baselineClearance x 1440 / (1000 x TBW), TBW = 0.5 or 0.6 x weight
RawMaxRise(u) ==
    Div(Mul(Mul(u.scr_ss, u.crcl_ss), Num(1440)),
        Mul(Num(1000), Mul(IF u.sex = "Female" THEN Rat(5, 10) ELSE Rat(3, 5), u.wt_for_tbw)))

ClampedTo(m, raw) ==
    /\ Ge(m, Rat(1, 2)) /\ Le(m, Num(5))
    /\ Lt(raw, Rat(1, 2)) => m = Rat(1, 2)
    /\ Gt(raw, Num(5)) => m = Num(5)
    /\ (Ge(raw, Rat(1, 2)) /\ Le(raw, Num(5))) => m = raw

\* C3: in body-water-derived mode, whenever the derived formula is evaluated,
\* the max rise lies in [0.5, 5.0]: values below 0.5 become 0.5, values above
\* 5.0 become 5.0, values inside pass through unchanged.
C3_DerivedClamped ==
    FormulaEvaluated(ui) =>
        /\ mddApp # None => ClampedTo(mddApp, RawMaxRise(ui))
        /\ mddSt # None => ClampedTo(mddSt, RawMaxRise(ui))

\* C3 witness: a derived value below 0.5 that is still positive, raised to 0.5
\* by both files.
C3_Witness ==
    /\ FormulaEvaluated(ui)
    /\ Gt(RawMaxRise(ui), Zero) /\ Lt(RawMaxRise(ui), Rat(1, 2))
    /\ mddApp = Rat(1, 2) /\ mddSt = Rat(1, 2)

\* C4: in body-water-derived mode, if baselineClearance, steady-state
\* creatinine or the weight is missing or non-positive (zero or negative), the
\* resolver returns the default 1.5 and neither evaluates nor clamps the formula.
C4_FallbackOnNonPositive ==
    (Derived(ui) /\ (~Positive(ui.crcl_ss) \/ ~Positive(ui.scr_ss) \/ ~Positive(ui.wt_for_tbw))) =>
        /\ mddApp # None => mddApp = Rat(3, 2)
        /\ mddSt # None => mddSt = Rat(3, 2)

----------------------------------------------------------------------------
(* Claims about dosing_band (SpecBand).                                    *)

Standard == {">=60 mL/min - standard dosing in most monographs", ">=60 mL/min - standard dosing"}

Partition(b) ==
    b # "pending" =>
        /\ gfr = None => b = "unknown"
        /\ (gfr # None /\ Ge(gfr, Zero)) =>
              /\ b \in Standard <=> Ge(gfr, Num(60))
              /\ b = "30-59 mL/min - moderate reduction" <=> (Ge(gfr, Num(30)) /\ Lt(gfr, Num(60)))
              /\ b = "15-29 mL/min - severe reduction" <=> (Ge(gfr, Num(15)) /\ Lt(gfr, Num(30)))
              /\ b = "<15 mL/min - kidney failure range" <=> Lt(gfr, Num(15))

\* C7: dosing_band is total and splits eGFR >= 0 exactly at 60, 30 and 15:
\* standard dosing iff g >= 60, moderate reduction iff 30 <= g < 60, severe
\* reduction iff 15 <= g < 30, kidney failure range iff 0 <= g < 15, each
\* boundary in the band that starts at it; an absent eGFR gives "unknown".
C7_BandPartition == Partition(bandApp) /\ Partition(bandSt)

\* C7 witness: the boundary value 30 has been banded by both files.
C7_Witness ==
    /\ gfr = Num(30)
    /\ bandApp = "30-59 mL/min - moderate reduction"
    /\ bandSt = "30-59 mL/min - moderate reduction"

----------------------------------------------------------------------------
(* Claims about the fluid-balance corrector (SpecFbc, SpecFb).             *)

\* C8: with fluid-balance correction enabled, a positive total body water and
\* a successful raw computation, the corrected computation also yields a valid
\* number that is reported beside the raw one, for every fluid balance
\* (negative balances reaching or exceeding total body water included); the
\* raw result is reported unchanged.
C8_CorrectedAlwaysReported ==
    (report.error = "none" /\ fbw.use_fb /\ Positive(fbw.tbw_fb)) =>
        /\ report.fb_applied
        /\ report.ke_fb # None
        /\ report.ke_raw = ClosedFormKe(args)

Degenerate(c) ==
    \/ c.scr = None \/ c.fb_l = None \/ c.tbw_l = None
    \/ Le(c.tbw_l, Zero)
    \/ c.fb_l = Zero

\* C9: fb_correct returns its creatinine argument unchanged when creatinine,
\* fluid balance or total body water is absent, when total body water <= 0,
\* and when the fluid balance is 0; in every other case it returns
\* creatinine x (1 + FB/TBW).
C9_FbCorrect ==
    fbc.done =>
        IF Degenerate(fbc) THEN fbc.result = fbc.scr
        ELSE fbc.result = Div(Mul(fbc.scr, Add(fbc.tbw_l, fbc.fb_l)), fbc.tbw_l)

\* C9 witness: a present creatinine corrected with fluid balance 0 and a
\* positive total body water.
C9_Witness ==
    /\ fbc.done
    /\ fbc.scr # None /\ fbc.fb_l = Zero /\ Positive(fbc.tbw_l)
    /\ fbc.result = fbc.scr

====
